---------------------------- MODULE Spec2Model ----------------------------
(***************************************************************************)
(* Model of assets/fonts/generate_font_header.py: embed_font reads a       *)
(* binary font file and writes a C header holding its bytes as a hex array *)
(* literal; the entry routine calls it for Inter and then for Space Mono.  *)
(*                                                                         *)
(* Text is modelled by TLA+ strings, character for character as Python     *)
(* builds it.  Byte strings are sequences of integers in 0..255.           *)
(***************************************************************************)
EXTENDS Integers, Sequences, FiniteSets, TLC

VARIABLES
    specs,     \* the calls the run makes: <<[font_path, output_path, var_name, font_name]>>
    fonts,     \* file system, source side: font_path -> [exists, readable, data]
    outs,      \* file system, output side: output_path -> [exists, status, text]
    pc,        \* index of the next call in specs; Len(specs)+1 = exited normally; 0 = killed by an exception
    results,   \* return values of the calls that returned, in order ("True" / "False")
    stdout,    \* lines printed so far
    fault      \* "" or the exception that escaped a call

vars == <<specs, fonts, outs, pc, results, stdout, fault>>

-----------------------------------------------------------------------------
(* Bounds of the model *)

\* Longest font file enumerated: two full rows and one byte of a third.
MaxLen == 33

-----------------------------------------------------------------------------
(* Strings *)

Char(s, i) == SubSeq(s, i, i)

Min(a, b) == IF a < b THEN a ELSE b

\* sep.join(parts): acc[k] is the text of the first k parts
Join(sep, parts) ==
    LET acc[k \in 0..Len(parts)] ==
            IF k = 0 THEN ""
            ELSE IF k = 1 THEN parts[1]
            ELSE acc[k - 1] \o sep \o parts[k]
    IN  acc[Len(parts)]

DecDigits == "0123456789"

\* str(n) for n >= 0, as in f'{len(data)}'
RECURSIVE Dec(_)
Dec(n) ==
    IF n < 10 THEN Char(DecDigits, n + 1)
    ELSE Dec(n \div 10) \o Char(DecDigits, (n % 10) + 1)

HexDigitsUpper == "0123456789ABCDEF"

\* the digits come out least significant first
RECURSIVE HexUpperReversed(_)
HexUpperReversed(n) ==
    IF n < 16 THEN Char(HexDigitsUpper, n + 1)
    ELSE Char(HexDigitsUpper, (n % 16) + 1) \o HexUpperReversed(n \div 16)

\* format type 'X': upper-case hexadecimal, no prefix, no padding
RECURSIVE HexUpper(_)
HexUpper(n) ==
    IF n < 16 THEN Char(HexDigitsUpper, n + 1)
    ELSE HexUpper(n \div 16) \o Char(HexDigitsUpper, (n % 16) + 1)

\* format 'X' in place of '02X': no padding
ZeroPadNone(s, w) == s

\* format fill '0' with minimum width w
RECURSIVE ZeroPad(_, _)
ZeroPad(s, w) == IF Len(s) < w THEN ZeroPad("0" \o s, w) ELSE s

AsciiLower == "abcdefghijklmnopqrstuvwxyz"
AsciiUpper == "ABCDEFGHIJKLMNOPQRSTUVWXYZ"

UpperChar(c) ==
    IF \E k \in 1..Len(AsciiLower) : Char(AsciiLower, k) = c
    THEN Char(AsciiUpper, CHOOSE k \in 1..Len(AsciiLower) : Char(AsciiLower, k) = c)
    ELSE c

\* str.upper() on ASCII text: every character mapped, in place
Upper(s) == Join("", [k \in 1..Len(s) |-> UpperChar(Char(s, k))])

-----------------------------------------------------------------------------
(* embed_font: the generated text *)

\* f'0x{b:02X}'
HexEntry(b) == "0x" \o ZeroPad(HexUpper(b), 2)

\* the row width, the step of range(0, len(data), 16) and of data[i:i+16]
RowWidth == 16

\* a loop that tests its bound after the first pass
RangeAtLeastOnce(start, stop, step) ==
    LET more == IF stop - start > step THEN (stop - start - 1) \div step ELSE 0
    IN  <<start>> \o [k \in 1..more |-> start + k * step]

\* range(start, stop, step) for step > 0, as a sequence
RECURSIVE Range(_, _, _)
Range(start, stop, step) ==
    IF start >= stop THEN << >>
    ELSE <<start>> \o Range(start + step, stop, step)

\* data[i:j+1]: the end index taken as inclusive
SliceInclusive(data, i, j) == SubSeq(data, i + 1, Min(j + 1, Len(data)))

\* data[i:j] with 0 <= i <= j (the slice clamps j to len(data))
Slice(data, i, j) == SubSeq(data, i + 1, Min(j, Len(data)))

\* ', '.join(f'0x{b:02X}' for b in chunk)
HexStr(chunk) == Join(", ", [k \in 1..Len(chunk) |-> HexEntry(chunk[k])])

\* lines.append(f'    {hex_str},')
RowLine(chunk) == "    " \o HexStr(chunk) \o ","

\* the lines appended by the for loop, one per i in range(0, len(data), 16)
RowLines(data) ==
    LET starts == Range(0, Len(data), RowWidth)
    IN  [k \in 1..Len(starts) |-> RowLine(Slice(data, starts[k], starts[k] + RowWidth))]

\* the guard built without .upper()
HeaderGuardAsIs(var_name) == var_name \o "_H"

\* header_guard = f'{var_name.upper()}_H'
HeaderGuard(var_name) == Upper(var_name) \o "_H"

\* the list literal that opens lines
HeadLines(data, var_name, font_name) ==
    << "// Auto-generated font data - " \o Dec(Len(data)) \o " bytes",
       "// " \o font_name \o " font from google fonts",
       "#ifndef " \o HeaderGuard(var_name),
       "#define " \o HeaderGuard(var_name),
       "",
       "static const unsigned char " \o var_name \o "[] = {" >>

\* the size constant set to the number of rows, not of bytes
TailLinesRowCount(data, var_name) ==
    << "};",
       "",
       "static const unsigned int " \o var_name \o "_size = "
           \o Dec(Len(Range(0, Len(data), RowWidth))) \o ";",
       "",
       "#endif // " \o Upper(var_name) \o "_H",
       "" >>

\* the list passed to lines.extend
TailLines(data, var_name) ==
    << "};",
       "",
       "static const unsigned int " \o var_name \o "_size = " \o Dec(Len(data)) \o ";",
       "",
       "#endif // " \o HeaderGuard(var_name),
       "" >>

Lines(data, var_name, font_name) ==
    HeadLines(data, var_name, font_name) \o RowLines(data) \o TailLines(data, var_name)

\* '\n'.join(lines)
FileText(data, var_name, font_name) == Join("\n", Lines(data, var_name, font_name))

-----------------------------------------------------------------------------
(* The file system *)

NoFont         == [exists |-> FALSE, readable |-> FALSE, data |-> << >>]
\* exists, but open(font_path, 'rb') fails (no read permission, a directory)
UnreadableFont == [exists |-> TRUE, readable |-> FALSE, data |-> << >>]
FontFile(d)    == [exists |-> TRUE, readable |-> TRUE, data |-> d]

\* status: what open(output_path, 'w') does: "ok" creates or truncates the
\* file; "denied" raises PermissionError; "noparent" raises FileNotFoundError
\* because the parent directory is missing.
NoOut          == [exists |-> FALSE, status |-> "ok", text |-> ""]
NoParent       == [exists |-> FALSE, status |-> "noparent", text |-> ""]
OutFile(t)     == [exists |-> TRUE, status |-> "ok", text |-> t]
ReadOnlyOut(t) == [exists |-> TRUE, status |-> "denied", text |-> t]

OpenWriteError(o) == IF o.status = "denied" THEN "PermissionError" ELSE "FileNotFoundError"

\* open(output_path, 'a'): the text is added after what the file held
WriteFileAppend(old, text) == [exists |-> TRUE, status |-> "ok", text |-> old.text \o text]

\* open(output_path, 'w') truncates; f.write(text) then leaves exactly text
WriteFile(old, text) == [exists |-> TRUE, status |-> "ok", text |-> text]

-----------------------------------------------------------------------------
(* embed_font(font_path, output_path, var_name, font_name), one action per *)
(* way the call can end                                                    *)

\* the output file opened before the existence check: it is created or truncated
NotFoundTruncates(s) ==
    /\ ~fonts[s.font_path].exists
    /\ outs[s.output_path].status = "ok"
    /\ outs' = [outs EXCEPT ![s.output_path] = [exists |-> TRUE, status |-> "ok", text |-> ""]]
    /\ stdout' = Append(stdout, "Error: Font file not found: " \o s.font_path)
    /\ results' = Append(results, "False")
    /\ UNCHANGED fault

\* lines 9-11: the font file does not exist
NotFound(s) ==
    /\ ~fonts[s.font_path].exists
    /\ stdout' = Append(stdout, "Error: Font file not found: " \o s.font_path)
    /\ results' = Append(results, "False")
    /\ UNCHANGED <<outs, fault>>

\* lines 13-14: open(font_path, 'rb') raises; nothing catches it
ReadFault(s) ==
    /\ fonts[s.font_path].exists
    /\ ~fonts[s.font_path].readable
    /\ fault' = "OSError"
    /\ UNCHANGED <<outs, results, stdout>>

\* the write wrapped in try/except: the error is reported and False returned
WriteFaultCaught(s) ==
    /\ fonts[s.font_path].exists
    /\ fonts[s.font_path].readable
    /\ outs[s.output_path].status # "ok"
    /\ stdout' = Append(stdout, "Error: cannot write " \o s.output_path)
    /\ results' = Append(results, "False")
    /\ UNCHANGED <<outs, fault>>

\* lines 13-44: the text is built, then open(output_path, 'w') raises; nothing catches it
WriteFault(s) ==
    /\ fonts[s.font_path].exists
    /\ fonts[s.font_path].readable
    /\ outs[s.output_path].status # "ok"
    /\ fault' = OpenWriteError(outs[s.output_path])
    /\ UNCHANGED <<outs, results, stdout>>

\* lines 13-48: the header is written, the diagnostic printed, True returned
Generated(s) ==
    LET data == fonts[s.font_path].data
    IN  /\ fonts[s.font_path].exists
        /\ fonts[s.font_path].readable
        /\ outs[s.output_path].status = "ok"
        /\ outs' = [outs EXCEPT ![s.output_path] =
                        WriteFile(@, FileText(data, s.var_name, s.font_name))]
        /\ stdout' = Append(stdout, "Generated " \o s.output_path \o ": "
                                        \o Dec(Len(data)) \o " bytes embedded")
        /\ results' = Append(results, "True")
        /\ UNCHANGED fault

-----------------------------------------------------------------------------
(* The entry routine *)

\* lines 52-54 and 57-59: the arguments of the two calls
MainSpecs ==
    << [font_path   |-> "assets/fonts/static/Inter_18pt-Regular.ttf",
        output_path |-> "misrc_gui/inter_font_data.h",
        var_name    |-> "inter_font_data",
        font_name   |-> "Inter"],
       [font_path   |-> "assets/fonts/SpaceMono-Regular.ttf",
        output_path |-> "misrc_gui/space_mono_font_data.h",
        var_name    |-> "space_mono_font_data",
        font_name   |-> "Space Mono"] >>

\* the entry routine gives up when a call returns False
ResumeExitOnFalse(p, f, rs) ==
    IF f # "" \/ (Len(rs) > 0 /\ rs[Len(rs)] = "False") THEN 0 ELSE p + 1

\* Where control goes after the call statement at p: an exception f that
\* escaped the call ends the process; otherwise the return value (the last
\* of rs) is dropped and the next statement runs.
Resume(p, f, rs) == IF f # "" THEN 0 ELSE p + 1

\* control is at one of the call statements
AtCall == pc \in 1..Len(specs)

\* what follows the call in the same step: control moves on or the process
\* ends; a call changes neither the list of calls nor the font files
Sequel ==
    /\ pc' = Resume(pc, fault', results')
    /\ UNCHANGED <<specs, fonts>>

\* One call statement of the entry routine: embed_font runs to its end in
\* one of its four ways.
Main ==
    \/ AtCall /\ NotFound(specs[pc]) /\ Sequel
    \/ AtCall /\ ReadFault(specs[pc]) /\ Sequel
    \/ AtCall /\ WriteFault(specs[pc]) /\ Sequel
    \/ AtCall /\ Generated(specs[pc]) /\ Sequel

Next == Main

-----------------------------------------------------------------------------
(* Inputs *)

\* n bytes: start, start+step, start+2*step, ... modulo 256
Ramp(start, step, n) == [k \in 1..n |-> (start + (k - 1) * step) % 256]

\* what an output file may hold before the run
OldTexts == { "/* stale */", FileText(Ramp(200, 1, 3 * RowWidth), "old_font", "Old") }

OutStates == {NoOut} \cup {OutFile(t) : t \in OldTexts} \cup {ReadOnlyOut(t) : t \in OldTexts}

FontStates(dataSet) == {NoFont, UnreadableFont} \cup {FontFile(d) : d \in dataSet}

FontPaths(ss) == {ss[k].font_path : k \in 1..Len(ss)}
OutPaths(ss)  == {ss[k].output_path : k \in 1..Len(ss)}

\* every output path of a run lies in one directory, which exists or does not
InitWith(ss, dataSet) ==
    /\ specs = ss
    /\ fonts \in [FontPaths(ss) -> FontStates(dataSet)]
    /\ \/ outs \in [OutPaths(ss) -> OutStates]
       \/ outs = [p \in OutPaths(ss) |-> NoParent]
    /\ pc = 1
    /\ results = << >>
    /\ stdout = << >>
    /\ fault = ""

\* fonts of the run of the entry routine: empty, one byte, MaxLen bytes
MainData == { Ramp(0, 1, 0), Ramp(65, 1, 1), Ramp(250, 1, MaxLen) }

\* the script run as a process
Init == InitWith(MainSpecs, MainData)

Spec == Init /\ [][Next]_vars

\* fonts for single calls: every length up to MaxLen, rising, wrapping past
\* 255, falling and constant bytes, and every byte value
EmbedData ==
    { Ramp(240, 1, n) : n \in 0..MaxLen }
        \cup { Ramp(255, 255, n) : n \in 0..MaxLen }
        \cup { Ramp(32 * k, 1, MaxLen) : k \in 0..7 }
        \cup { Ramp(171, 0, RowWidth + 1) }

VarNames  == { "font_data", "x9_Yz", "inter_font_data" }
FontNames == { "Font", "Space Mono" }

\* one call of embed_font with arguments drawn from the sets above
InitEmbed ==
    \E v \in VarNames, f \in FontNames :
        InitWith(<< [font_path |-> "fonts/in.ttf", output_path |-> "gen/out.h",
                     var_name |-> v, font_name |-> f] >>, EmbedData)

SpecEmbed == InitEmbed /\ [][Next]_vars

\* two calls with the same font, symbol and label, writing to two paths that
\* held different things before
TwinSpecs ==
    << [font_path |-> "fonts/in.ttf", output_path |-> "gen/a.h",
        var_name |-> "font_data", font_name |-> "Font"],
       [font_path |-> "fonts/in.ttf", output_path |-> "gen/b.h",
        var_name |-> "font_data", font_name |-> "Font"] >>

TwinData == { Ramp(240, 1, n) : n \in 0..MaxLen }

InitTwin ==
    /\ InitWith(TwinSpecs, TwinData)
    /\ outs["gen/a.h"] # outs["gen/b.h"]

SpecTwin == InitTwin /\ [][Next]_vars

-----------------------------------------------------------------------------
(* Reading a generated header back *)

\* first position at which sep occurs in s, or 0
Find(s, sep) ==
    LET hits == { i \in 1..(Len(s) - Len(sep) + 1) : SubSeq(s, i, i + Len(sep) - 1) = sep }
    IN  IF hits = {} THEN 0 ELSE CHOOSE i \in hits : \A j \in hits : i <= j

\* s.split(sep)
RECURSIVE Split(_, _)
Split(s, sep) ==
    LET i == Find(s, sep)
    IN  IF i = 0 THEN <<s>>
        ELSE <<SubSeq(s, 1, i - 1)>> \o Split(SubSeq(s, i + Len(sep), Len(s)), sep)

StartsWith(s, pre) == Len(s) >= Len(pre) /\ SubSeq(s, 1, Len(pre)) = pre
EndsWith(s, suf)   == Len(s) >= Len(suf) /\ SubSeq(s, Len(s) - Len(suf) + 1, Len(s)) = suf

\* s without the prefix pre and the suffix suf
Between(s, pre, suf) == SubSeq(s, Len(pre) + 1, Len(s) - Len(suf))

FileLines(text) == Split(text, "\n")

\* the lines strictly between the one that opens the array ("... [] = {")
\* and the first "};" after it
BodyRows(text) ==
    LET ls    == FileLines(text)
        open  == CHOOSE k \in 1..Len(ls) :
                     /\ EndsWith(ls[k], "[] = {")
                     /\ \A j \in 1..(k - 1) : ~EndsWith(ls[j], "[] = {")
        close == CHOOSE k \in (open + 1)..Len(ls) :
                     /\ ls[k] = "};"
                     /\ \A j \in (open + 1)..(k - 1) : ls[j] # "};"
    IN  SubSeq(ls, open + 1, close - 1)

\* the entries of one row: the text between the indentation and the
\* trailing comma, cut at every ", "
RowEntries(row) == Split(Between(row, "    ", ","), ", ")

RECURSIVE Flatten(_)
Flatten(seqs) == IF Len(seqs) = 0 THEN << >> ELSE Head(seqs) \o Flatten(Tail(seqs))

\* all entries of the array literal, row by row, left to right
Entries(text) ==
    LET rows == BodyRows(text)
    IN  Flatten([r \in 1..Len(rows) |-> RowEntries(rows[r])])

\* value of one digit in the given base, -1 if c is no digit of it
DigitValue(c, digits) ==
    IF \E k \in 1..Len(digits) : Char(digits, k) = c
    THEN (CHOOSE k \in 1..Len(digits) : Char(digits, k) = c) - 1
    ELSE -1

HexDigitValue(c) ==
    IF DigitValue(c, "0123456789ABCDEF") >= 0 THEN DigitValue(c, "0123456789ABCDEF")
    ELSE DigitValue(c, "0123456789abcdef")

\* value of a string of digits read left to right, -1 if it is empty or
\* holds anything else
RECURSIVE ParseDigits(_, _, _)
ParseDigits(s, base, acc) ==
    IF Len(s) = 0 THEN acc
    ELSE LET d == IF base = 16 THEN HexDigitValue(Char(s, 1))
                  ELSE DigitValue(Char(s, 1), "0123456789")
         IN  IF d < 0 THEN -1
             ELSE ParseDigits(SubSeq(s, 2, Len(s)), base, acc * base + d)

ParseDec(s) == IF Len(s) = 0 THEN -1 ELSE ParseDigits(s, 10, 0)

\* the byte a C compiler reads from the literal e, -1 if e is no 0x literal
ParseHexLiteral(e) ==
    IF StartsWith(e, "0x") /\ Len(e) > 2 THEN ParseDigits(SubSeq(e, 3, Len(e)), 16, 0)
    ELSE -1

\* the calls that returned, and what each was given and left behind
Returned     == 1..Len(results)
DataOf(i)    == fonts[specs[i].font_path].data
TextOf(i)    == outs[specs[i].output_path].text

-----------------------------------------------------------------------------
(* Properties of the generated text *)

\* C1: round trip.  Whenever embed_font has returned True, reading the
\* entries of the array literal of the file it wrote, row by row and left to
\* right, as hexadecimal literals gives back the bytes of the font file, the
\* same bytes in the same order.
C1_RoundTrip ==
    \A i \in Returned :
        results[i] = "True" =>
            LET es == Entries(TextOf(i))
            IN  [k \in 1..Len(es) |-> ParseHexLiteral(es[k])] = DataOf(i)

\* a call returned True for a font of MaxLen bytes that starts at 240 and
\* wraps past 255, and its file reads back as those bytes
C1_Witness ==
    \E i \in Returned :
        /\ results[i] = "True"
        /\ DataOf(i) = Ramp(240, 1, MaxLen)
        /\ ParseHexLiteral(Entries(TextOf(i))[RowWidth + 1]) = 0

IsUpperHexDigit(c) == DigitValue(c, "0123456789ABCDEF") >= 0

\* C2: a font of N bytes gives an array literal of exactly N entries, each
\* of them 0x followed by exactly two upper-case hexadecimal digits; bytes
\* 0..15 are written with a leading zero digit.
C2_EntryCountAndForm ==
    \A i \in Returned :
        results[i] = "True" =>
            LET es == Entries(TextOf(i))
            IN  /\ Len(es) = Len(DataOf(i))
                /\ \A k \in 1..Len(es) :
                       /\ Len(es[k]) = 4
                       /\ SubSeq(es[k], 1, 2) = "0x"
                       /\ IsUpperHexDigit(Char(es[k], 3))
                       /\ IsUpperHexDigit(Char(es[k], 4))
                       /\ DataOf(i)[k] < 16 => Char(es[k], 3) = "0"

\* a call returned True for a font holding a byte below 16 and a byte with a
\* letter digit, written as 0x0A and 0xFF
C2_Witness ==
    \E i \in Returned :
        /\ results[i] = "True"
        /\ \E k, m \in 1..Len(DataOf(i)) :
               /\ DataOf(i)[k] = 10
               /\ Entries(TextOf(i))[k] = "0x0A"
               /\ DataOf(i)[m] = 255
               /\ Entries(TextOf(i))[m] = "0xFF"

\* the least r with r * RowWidth >= n
CeilRows(n) == CHOOSE r \in 0..n : r * RowWidth >= n /\ (r = 0 \/ (r - 1) * RowWidth < n)

\* C3: a font of N > 0 bytes gives ceil(N/16) rows; every row but the last
\* holds exactly 16 entries and the last holds N mod 16, or 16 when N is a
\* multiple of 16.
C3_RowShape ==
    \A i \in Returned :
        (results[i] = "True" /\ Len(DataOf(i)) > 0) =>
            LET rows == BodyRows(TextOf(i))
                n    == Len(DataOf(i))
            IN  /\ Len(rows) = CeilRows(n)
                /\ \A r \in 1..(Len(rows) - 1) : Len(RowEntries(rows[r])) = 16
                /\ Len(RowEntries(rows[Len(rows)])) = IF n % 16 = 0 THEN 16 ELSE n % 16

\* the 17-byte scenario: a call returned True for a font of 17 bytes and
\* its file has two rows, of 16 entries and of 1 entry
C3_Witness ==
    \E i \in Returned :
        /\ results[i] = "True"
        /\ Len(DataOf(i)) = 17
        /\ Len(BodyRows(TextOf(i))) = 2
        /\ Len(RowEntries(BodyRows(TextOf(i))[1])) = 16
        /\ Len(RowEntries(BodyRows(TextOf(i))[2])) = 1

\* the numbers the text names: the lines of ls that start with pre and end
\* with suf, each read as a decimal number
NumbersIn(ls, pre, suf) ==
    { ParseDec(Between(ls[k], pre, suf)) :
        k \in { j \in 1..Len(ls) : StartsWith(ls[j], pre) /\ EndsWith(ls[j], suf) } }

\* C4: for a font of N bytes, the constant <var_name>_size of the file
\* written is N, which is also the number of entries of the array literal,
\* the byte count of the first comment line and the byte count of the
\* diagnostic printed for the call.
C4_SizeConstant ==
    \A i \in Returned :
        results[i] = "True" =>
            LET ls == FileLines(TextOf(i))
                n  == Len(DataOf(i))
            IN  /\ NumbersIn(ls, "static const unsigned int " \o specs[i].var_name
                                     \o "_size = ", ";") = {n}
                /\ Len(Entries(TextOf(i))) = n
                /\ NumbersIn(<<ls[1]>>, "// Auto-generated font data - ", " bytes") = {n}
                /\ NumbersIn(<<stdout[i]>>, "Generated " \o specs[i].output_path \o ": ",
                             " bytes embedded") = {n}

\* a call returned True for a font of MaxLen bytes (a count of two digits)
\* and the file says so
C4_Witness ==
    \E i \in Returned :
        /\ results[i] = "True"
        /\ Len(DataOf(i)) = MaxLen
        /\ \E k \in 1..Len(FileLines(TextOf(i))) :
               FileLines(TextOf(i))[k] =
                   "static const unsigned int " \o specs[i].var_name \o "_size = "
                       \o Dec(MaxLen) \o ";"

-----------------------------------------------------------------------------
(* Properties of the calls *)

\* the files of the call about to run
FontNow  == fonts[specs[pc].font_path]
OutNow   == outs[specs[pc].output_path]

\* C5: a call whose font path does not exist returns False, no exception
\* escapes it, and the file system is as before: no file appears at
\* output_path and a file already there keeps its content.
C5_MissingSource ==
    [][ (AtCall /\ ~FontNow.exists) =>
            /\ results' = Append(results, "False")
            /\ fault' = ""
            /\ pc' = pc + 1
            /\ outs' = outs
            /\ fonts' = fonts ]_vars

\* a call returned False while a stale file lay at its output path, and the
\* stale file is still there
C5_Witness ==
    \E i \in Returned :
        /\ results[i] = "False"
        /\ ~fonts[specs[i].font_path].exists
        /\ outs[specs[i].output_path] = OutFile("/* stale */")

\* C6: the entry routine runs the Inter call, then the Space Mono call, each
\* to its end before the next starts; when the first call returns, True or
\* False, the second is made, and what the second returns depends only on
\* its own font file.
C6_Sequential ==
    /\ AtCall => Len(results) = pc - 1
    /\ Len(stdout) = Len(results)
    /\ Len(results) >= 1 =>
           stdout[1] \in
               { "Error: Font file not found: assets/fonts/static/Inter_18pt-Regular.ttf",
                 "Generated misrc_gui/inter_font_data.h: "
                     \o Dec(Len(fonts["assets/fonts/static/Inter_18pt-Regular.ttf"].data))
                     \o " bytes embedded" }
    /\ Len(results) >= 2 =>
           /\ stdout[2] \in
                  { "Error: Font file not found: assets/fonts/SpaceMono-Regular.ttf",
                    "Generated misrc_gui/space_mono_font_data.h: "
                        \o Dec(Len(fonts["assets/fonts/SpaceMono-Regular.ttf"].data))
                        \o " bytes embedded" }
           /\ results[2] = IF fonts["assets/fonts/SpaceMono-Regular.ttf"].exists
                           THEN "True" ELSE "False"
    /\ (Len(results) = 1 /\ fault = "") => (pc = 2 /\ ENABLED Next)
    /\ (Len(results) = 2 /\ fault = "") => pc = 3

\* the Inter font was missing, the call returned False, and the Space Mono
\* header was generated all the same
C6_Witness ==
    /\ results = <<"False", "True">>
    /\ pc = 3
    /\ outs["misrc_gui/space_mono_font_data.h"].text =
           FileText(fonts["assets/fonts/SpaceMono-Regular.ttf"].data,
                    "space_mono_font_data", "Space Mono")

\* C7: when the font file can be read but output_path cannot be opened for
\* writing (permission denied, parent directory missing), embed_font returns
\* nothing: the exception escapes, no diagnostic is printed, and the
\* process ends there, so no later call is made.
C7_WriteFaultFatal ==
    [][ /\ (AtCall /\ FontNow.exists /\ FontNow.readable /\ OutNow.status # "ok") =>
               /\ fault' \in {"PermissionError", "FileNotFoundError"}
               /\ results' = results
               /\ stdout' = stdout
               /\ pc' = 0
        /\ (fault # "") => FALSE ]_vars

\* the Inter header could not be written: the run ended with no call
\* returned and nothing printed, although the Space Mono font was readable
\* and its header writable
C7_Witness ==
    /\ pc = 0
    /\ fault = "PermissionError"
    /\ results = << >>
    /\ stdout = << >>
    /\ fonts["assets/fonts/static/Inter_18pt-Regular.ttf"].readable
    /\ fonts["assets/fonts/SpaceMono-Regular.ttf"].readable
    /\ outs["misrc_gui/space_mono_font_data.h"] = NoOut

\* C8: a successful call leaves at output_path the generated text and
\* nothing of what was there before: two calls with the same font, symbol
\* and label, on paths that held different things, leave identical files.
C8_Overwrite ==
    results = <<"True", "True">> =>
        /\ outs["gen/a.h"].text = outs["gen/b.h"].text
        /\ outs["gen/a.h"].exists /\ outs["gen/b.h"].exists
        /\ StartsWith(outs["gen/b.h"].text, "// Auto-generated font data - ")

\* both calls returned True (the two paths held different things before,
\* by InitTwin) for a font shorter than the old header
C8_Witness ==
    /\ results = <<"True", "True">>
    /\ Len(fonts["fonts/in.ttf"].data) = 1
    /\ outs["gen/a.h"].text = outs["gen/b.h"].text

IsLower(c) == DigitValue(c, "abcdefghijklmnopqrstuvwxyz") >= 0

\* t is s with every lower-case letter replaced by its capital
IsUpperCased(t, s) ==
    /\ Len(t) = Len(s)
    /\ \A k \in 1..Len(s) :
           IF IsLower(Char(s, k))
           THEN DigitValue(Char(t, k), "ABCDEFGHIJKLMNOPQRSTUVWXYZ")
                    = DigitValue(Char(s, k), "abcdefghijklmnopqrstuvwxyz")
           ELSE Char(t, k) = Char(s, k)

\* C9: the header guard of the generated file is the symbol name in upper
\* case followed by _H, and the #ifndef line, the #define line and the
\* comment of the closing #endif carry that same token.
C9_HeaderGuard ==
    \A i \in Returned :
        results[i] = "True" =>
            LET ls    == FileLines(TextOf(i))
                guard == Between(ls[3], "#ifndef ", "")
            IN  /\ StartsWith(ls[3], "#ifndef ")
                /\ EndsWith(guard, "_H")
                /\ IsUpperCased(Between(guard, "", "_H"), specs[i].var_name)
                /\ ls[4] = "#define " \o guard
                /\ ls[Len(ls) - 1] = "#endif // " \o guard

\* a header was generated for the symbol x9_Yz, with guard X9_YZ_H
C9_Witness ==
    \E i \in Returned :
        /\ results[i] = "True"
        /\ specs[i].var_name = "x9_Yz"
        /\ FileLines(TextOf(i))[3] = "#ifndef X9_YZ_H"

\* C10: for a font file that exists and is empty, embed_font returns True
\* and writes the whole boilerplate with no row between the line opening
\* the array and the closing "};", and with size constant 0.
C10_EmptyFont ==
    \A i \in Returned :
        fonts[specs[i].font_path] = FontFile(<< >>) =>
            LET ls == FileLines(TextOf(i))
                v  == specs[i].var_name
            IN  /\ results[i] = "True"
                /\ BodyRows(TextOf(i)) = << >>
                /\ Len(ls) = 12
                /\ ls[1] = "// Auto-generated font data - 0 bytes"
                /\ ls[2] = "// " \o specs[i].font_name \o " font from google fonts"
                /\ StartsWith(ls[3], "#ifndef ")
                /\ StartsWith(ls[4], "#define ")
                /\ ls[5] = ""
                /\ ls[6] = "static const unsigned char " \o v \o "[] = {"
                /\ ls[7] = "};"
                /\ ls[8] = ""
                /\ ls[9] = "static const unsigned int " \o v \o "_size = 0;"
                /\ ls[10] = ""
                /\ StartsWith(ls[11], "#endif // ")
                /\ ls[12] = ""

\* a call returned True for an empty font file and printed its diagnostic
C10_Witness ==
    \E i \in Returned :
        /\ fonts[specs[i].font_path] = FontFile(<< >>)
        /\ results[i] = "True"
        /\ stdout[i] = "Generated gen/out.h: 0 bytes embedded"
        /\ Len(FileLines(TextOf(i))) = 12

=============================================================================
